---- MODULE Spec2Model ----
(* Model of metalsmith-mapsite (src/lib/index.js): the plugin constructor   *)
(* and the transformation function it returns.  JavaScript strings are      *)
(* sequences of one-character strings; JavaScript values are tagged         *)
(* records, so that truthiness, isNaN and "is a string" can be computed as  *)
(* the language computes them.                                              *)
EXTENDS Integers, Sequences, FiniteSets, TLC

VARIABLES pc, opts, cfg, files, files0, keys, idx, disk, staticObjects,
          entries, origins, writes, doneCalls, runs

vars == <<pc, opts, cfg, files, files0, keys, idx, disk, staticObjects,
          entries, origins, writes, doneCalls, runs>>

----------------------------------------------------------------------------
(* Bounds of the model                                                      *)
MaxFiles  == 2   \* number of keys of the build file set
MaxStatic == 2   \* number of records of the JSON side file
MaxRuns   == 2   \* invocations of the transformation on the same file set
MaxLen    == 3   \* length of the enumerated free-form paths

----------------------------------------------------------------------------
(* JavaScript values                                                        *)
Undef    == [t |-> "undef"]
Null     == [t |-> "null"]
NaN      == [t |-> "nan"]
Num(n)   == [t |-> "num", v |-> n]       \* n is the number in tenths
Str(s)   == [t |-> "str", v |-> s]
Bool(b)  == [t |-> "bool", v |-> b]
DateV(d) == [t |-> "date", v |-> d]      \* a Date object, d its day number
Obj      == [t |-> "obj"]                \* any other object, e.g. a Buffer

S_index_html == <<"i","n","d","e","x",".","h","t","m","l">>
S_html       == <<".","h","t","m","l">>
S_json       == <<".","j","s","o","n">>
S_weekly     == <<"w","e","e","k","l","y">>
S_daily      == <<"d","a","i","l","y">>
S_sitemap    == <<"s","i","t","e","m","a","p",".","x","m","l">>
S_invalid    == <<"I","n","v","a","l","i","d"," ","D","a","t","e">>
S_host       == <<"h">>

\* Boolean(x)
Truthy(x) ==
  CASE x.t = "undef" -> FALSE
    [] x.t = "null"  -> FALSE
    [] x.t = "nan"   -> FALSE
    [] x.t = "num"   -> x.v # 0
    [] x.t = "str"   -> x.v # <<>>
    [] x.t = "bool"  -> x.v
    [] OTHER         -> TRUE

\* a || b
OrElse(a, b) == IF Truthy(a) THEN a ELSE b

\* a string that Number() converts to a number: optional digits around a dot
IsDigit(c) == c \in {"0","1","2","3","4","5","6","7","8","9"}
NumericString(s) ==
  /\ \A i \in 1..Len(s) : IsDigit(s[i]) \/ s[i] = "."
  /\ Cardinality({i \in 1..Len(s) : s[i] = "."}) <= 1
  /\ s # <<".">>

\* the global isNaN(x): Number(x) is NaN
IsNaN(x) ==
  CASE x.t = "undef" -> TRUE
    [] x.t = "nan"   -> TRUE
    [] x.t = "str"   -> ~NumericString(x.v)
    [] x.t = "obj"   -> TRUE
    [] OTHER         -> FALSE

----------------------------------------------------------------------------
(* Strings and paths                                                        *)
EndsWith(s, suffix) ==
  /\ Len(suffix) <= Len(s)
  /\ SubSeq(s, Len(s) - Len(suffix) + 1, Len(s)) = suffix

chompRight(input, suffix) ==
  IF EndsWith(input, suffix)
  THEN SubSeq(input, 1, Len(input) - Len(suffix))
  ELSE input

\* slash(): backslashes become forward slashes
slash(s) == [i \in 1..Len(s) |-> IF s[i] = "\\" THEN "/" ELSE s[i]]

Max(S) == CHOOSE m \in S : \A n \in S : n <= m

\* index of the last character that is not a trailing slash (0 if none)
PartEnd(p) ==
  LET ns == {i \in 1..Len(p) : p[i] # "/"} IN IF ns = {} THEN 0 ELSE Max(ns)

\* index of the first character of the final segment
PartStart(p) ==
  LET sl == {i \in 1..PartEnd(p) : p[i] = "/"} IN IF sl = {} THEN 1 ELSE Max(sl) + 1

\* path.basename(p)
basename(p) == SubSeq(p, PartStart(p), PartEnd(p))

\* path.extname(p)
extname(p) ==
  LET dots == {i \in PartStart(p)..PartEnd(p) : p[i] = "."} IN
  IF dots = {} THEN <<>>
  ELSE IF Max(dots) = PartStart(p) THEN <<>>
  ELSE IF basename(p) = <<".", ".">> THEN <<>>
  ELSE SubSeq(p, Max(dots), PartEnd(p))

\* the segments of a path, split at "/"
RECURSIVE Segments(_)
Segments(p) ==
  LET sl == {i \in 1..Len(p) : p[i] = "/"} IN
  IF sl = {} THEN <<p>>
  ELSE LET k == CHOOSE i \in sl : \A j \in sl : i <= j
       IN <<SubSeq(p, 1, k - 1)>> \o Segments(SubSeq(p, k + 1, Len(p)))

----------------------------------------------------------------------------
(* Glob patterns (multimatch).  A pattern value names one of the pattern    *)
(* configurations below; paths are relative file paths, so every segment    *)
(* is non-empty.                                                            *)
Pat(name) == [t |-> "pat", v |-> name]
PatHtml     == Pat("**/*.html")                \* the default
PatAll      == Pat("**/*")
PatHtmlNotB == Pat("[**/*.html, !b/**]")

NoDotSegment(file) ==
  \A i \in 1..Len(Segments(file)) :
     LET sg == Segments(file)[i] IN sg # <<>> /\ sg[1] # "."

GlobHtml(file) ==
  /\ NoDotSegment(file)
  /\ EndsWith(file, S_html)
  /\ Len(basename(file)) > Len(S_html)

GlobUnderB(file) ==
  /\ Len(Segments(file)) >= 2
  /\ Segments(file)[1] = <<"b">>
  /\ NoDotSegment(file)

\* match(file, pattern): the list of the paths that match
match(file, pattern) ==
  LET hit == CASE pattern = PatHtml     -> GlobHtml(file)
               [] pattern = PatAll      -> NoDotSegment(file)
               [] pattern = PatHtmlNotB -> GlobHtml(file) /\ ~GlobUnderB(file)
               [] OTHER                 -> FALSE
  IN IF hit THEN <<file>> ELSE <<>>

----------------------------------------------------------------------------
(* Dates                                                                    *)
S_date(d) == <<"d", "a", "y">> \o <<IF d = 0 THEN "0" ELSE "1">>
S_utc(d)  == <<"U", "T", "C">> \o <<IF d = 0 THEN "0" ELSE "1">>

\* new Date(x): the day number, or -1 for an invalid date
NewDate(x) ==
  CASE x.t = "date" -> x.v
    [] x.t = "num"  -> 0
    [] x.t = "null" -> 0
    [] x.t = "bool" -> 0
    [] x.t = "str"  -> IF x.v = S_date(0) THEN 0
                       ELSE IF x.v = S_date(1) THEN 1 ELSE -1
    [] OTHER        -> -1

\* new Date(x).toUTCString()
toUTCString(x) ==
  IF NewDate(x) = -1 THEN Str(S_invalid) ELSE Str(S_utc(NewDate(x)))

----------------------------------------------------------------------------
(* Objects                                                                  *)
\* lodash.pickby(o, function(item) { return !isundefined(item); })
pickby(o) == [k \in {f \in DOMAIN o : o[f] # Undef} |-> o[k]]

\* the {} of "opts || {}"
EmptyOpts ==
  [t |-> "opts", hostname |-> Undef, changefreq |-> Undef, lastmod |-> Undef,
   omitExtension |-> Undef, omitIndex |-> Undef, output |-> Undef,
   pattern |-> Undef, priority |-> Undef, jsonFile |-> Undef]

\* Object.keys(files)
ObjectKeys(fs) == [i \in 1..Len(fs) |-> fs[i].key]

\* files[k]
FileAt(fs, k) == fs[CHOOSE i \in 1..Len(fs) : fs[i].key = k].fm

HasKey(fs, k) == \E i \in 1..Len(fs) : fs[i].key = k

\* files = { k: v }
SetFileClobber(fs, k, v) == <<[key |-> k, fm |-> v]>>

\* files[k] = v
SetFile(fs, k, v) ==
  IF HasKey(fs, k)
  THEN [i \in 1..Len(fs) |-> IF fs[i].key = k THEN [key |-> k, fm |-> v] ELSE fs[i]]
  ELSE Append(fs, [key |-> k, fm |-> v])

\* { contents: new Buffer(sitemap.toString()) }
Artifact(urls) ==
  [private |-> Undef, canonical |-> Undef, changefreq |-> Undef,
   priority |-> Undef, lastmod |-> Undef,
   contents |-> [t |-> "buffer", v |-> urls]]

----------------------------------------------------------------------------
(* The functions of the transformation                                      *)
\* check without the test of the private flag
checkNoPrivate(file, frontmatter, c) ==
  LET m == match(file, c.pattern) IN
  IF Len(m) = 0 \/ ~Truthy(Str(m[1])) THEN FALSE ELSE TRUE

\* check(file, frontmatter)
check(file, frontmatter, c) ==
  LET m == match(file, c.pattern) IN
  IF Len(m) = 0 \/ ~Truthy(Str(m[1])) THEN FALSE
  ELSE IF Truthy(frontmatter.private) THEN FALSE
  ELSE TRUE

\* buildUrl without the final "/" of line 120
buildUrlNoSlash(file, frontmatter, c) ==
  LET normalizedFile == slash(file)
      r1 == IF frontmatter.canonical.t = "str" THEN frontmatter.canonical.v ELSE <<>>
      r2 == IF r1 = <<>> /\ Truthy(c.omitIndex)
               /\ basename(normalizedFile) = S_index_html
            THEN chompRight(normalizedFile, S_index_html) ELSE r1
      r3 == IF r2 = <<>> /\ Truthy(c.omitExtension)
            THEN chompRight(normalizedFile, extname(normalizedFile)) ELSE r2
  IN IF r3 = <<>> THEN normalizedFile ELSE r3

\* buildUrl(file, frontmatter)
buildUrl(file, frontmatter, c) ==
  LET normalizedFile == slash(file)
      r0 == <<>>
      r1 == IF r0 = <<>> /\ frontmatter.canonical.t = "str"
            THEN frontmatter.canonical.v ELSE r0
      r2 == IF r1 = <<>> /\ Truthy(c.omitIndex)
               /\ basename(normalizedFile) = S_index_html
            THEN chompRight(normalizedFile, S_index_html) ELSE r1
      r3 == IF r2 = <<>> /\ Truthy(c.omitExtension)
            THEN chompRight(normalizedFile, extname(normalizedFile)) ELSE r2
      r4 == IF r3 = <<>> THEN normalizedFile ELSE r3
  IN IF ~EndsWith(r4, <<"/">>) THEN r4 \o <<"/">> ELSE r4

\* the entry before its url is added: pickby(...) and the lastmod conversion
entryFields(frontmatter, c) ==
  LET e == pickby([changefreq |-> OrElse(frontmatter.changefreq, c.changefreq),
                   priority   |-> OrElse(frontmatter.priority, c.priority),
                   lastmod    |-> OrElse(frontmatter.lastmod, c.lastmod)])
  IN IF "lastmod" \in DOMAIN e
     THEN [e EXCEPT !["lastmod"] = toUTCString(e["lastmod"])]
     ELSE e

\* entry of a build file
fileEntry(file, frontmatter, c) ==
  entryFields(frontmatter, c) @@ ("url" :> Str(buildUrl(file, frontmatter, c)))

\* url of a static record, normalized like the url of a build file
staticUrlSlash(frontmatter, c) ==
  IF Truthy(frontmatter.path)
  THEN LET u == c.hostname.v \o <<"/">> \o frontmatter.path.v
       IN Str(IF EndsWith(u, <<"/">>) THEN u ELSE u \o <<"/">>)
  ELSE Str(<<>>)

\* url of a static record
staticUrl(frontmatter, c) ==
  IF Truthy(frontmatter.path)
  THEN Str(c.hostname.v \o <<"/">> \o frontmatter.path.v)
  ELSE Str(<<>>)

\* entry of a static record
staticEntry(frontmatter, c) ==
  entryFields(frontmatter, c) @@ ("url" :> staticUrl(frontmatter, c))

----------------------------------------------------------------------------
(* plugin(opts): option validation and defaults                             *)
\* opts after "opts = opts || {}" and the bare-string case
normalizeOpts(o) ==
  LET o1 == IF Truthy(o) THEN o ELSE EmptyOpts
  IN IF o1.t = "str" THEN [EmptyOpts EXCEPT !.hostname = o1] ELSE o1

NoCfg == [t |-> "none"]

\* the constructor with a case-insensitive test of the extension
optsRejectedAnyCase(o) ==
  \/ ~Truthy(normalizeOpts(o).hostname)
  \/ /\ Truthy(normalizeOpts(o).jsonFile)
     /\ extname(normalizeOpts(o).jsonFile.v) \notin {S_json, <<".", "J", "S", "O", "N">>}

\* the two throw statements of the constructor
optsRejected(o) ==
  \/ ~Truthy(normalizeOpts(o).hostname)
  \/ /\ Truthy(normalizeOpts(o).jsonFile)
     /\ extname(normalizeOpts(o).jsonFile.v) # S_json

\* the constructor with "opts.priority || 0.5"
resolveOptsFalsy(o) ==
  LET n == normalizeOpts(o) IN
  [changefreq    |-> OrElse(n.changefreq, Str(S_weekly)),
   hostname      |-> n.hostname,
   lastmod       |-> n.lastmod,
   omitExtension |-> n.omitExtension,
   omitIndex     |-> n.omitIndex,
   output        |-> OrElse(n.output, Str(S_sitemap)),
   pattern       |-> OrElse(n.pattern, PatHtml),
   priority      |-> OrElse(n.priority, Num(5)),
   staticURLs    |-> OrElse(n.jsonFile, Bool(FALSE))]

\* the local variables of the constructor
resolveOpts(o) ==
  LET n == normalizeOpts(o) IN
  [changefreq    |-> OrElse(n.changefreq, Str(S_weekly)),
   hostname      |-> n.hostname,
   lastmod       |-> n.lastmod,
   omitExtension |-> n.omitExtension,
   omitIndex     |-> n.omitIndex,
   output        |-> OrElse(n.output, Str(S_sitemap)),
   pattern       |-> OrElse(n.pattern, PatHtml),
   priority      |-> IF IsNaN(n.priority) THEN Num(5) ELSE n.priority,
   staticURLs    |-> OrElse(n.jsonFile, Bool(FALSE))]

ConstructThrow ==
  /\ pc = "new"
  /\ optsRejected(opts)
  /\ pc' = "threw"
  /\ UNCHANGED <<opts, cfg, files, files0, keys, idx, disk, staticObjects,
                 entries, origins, writes, doneCalls, runs>>

ConstructOk ==
  /\ pc = "new"
  /\ ~optsRejected(opts)
  /\ cfg' = resolveOpts(opts)
  /\ pc' = "ready"
  /\ UNCHANGED <<opts, files, files0, keys, idx, disk, staticObjects,
                 entries, origins, writes, doneCalls, runs>>

----------------------------------------------------------------------------
(* function(files, metalsmith, done)                                        *)
\* entry of the function: createSitemap and Object.keys(files)
Invoke ==
  /\ pc = "ready"
  /\ runs < MaxRuns
  /\ runs' = runs + 1
  /\ entries' = <<>>
  /\ origins' = <<>>
  /\ keys' = ObjectKeys(files)
  /\ files0' = files
  /\ idx' = 1
  /\ staticObjects' = <<>>
  /\ writes' = 0
  /\ doneCalls' = 0
  /\ pc' = "files"
  /\ UNCHANGED <<opts, cfg, files, disk>>

\* one call of the forEach callback
FileStep ==
  /\ pc = "files"
  /\ idx <= Len(keys)
  /\ LET file == keys[idx]
         frontmatter == FileAt(files, file)
     IN IF ~check(file, frontmatter, cfg)
        THEN UNCHANGED <<entries, origins>>
        ELSE /\ entries' = Append(entries, fileEntry(file, frontmatter, cfg))
             /\ origins' = Append(origins, [kind |-> "file", key |-> file,
                                            fm |-> frontmatter])
  /\ idx' = idx + 1
  /\ UNCHANGED <<pc, opts, cfg, files, files0, keys, disk, staticObjects,
                 writes, doneCalls, runs>>

\* the forEach is over and the artifact is written before the static entries
FilesDoneEarlyWrite ==
  /\ pc = "files"
  /\ idx > Len(keys)
  /\ pc' = IF Truthy(cfg.staticURLs) THEN "load" ELSE "write"
  /\ files' = SetFile(files, cfg.output.v,
                      Artifact([i \in 1..Len(entries) |-> entries[i]["url"]]))
  /\ writes' = writes + 1
  /\ UNCHANGED <<opts, cfg, files0, keys, idx, disk, staticObjects,
                 entries, origins, doneCalls, runs>>

\* the forEach is over: "if (staticURLs)"
FilesDone ==
  /\ pc = "files"
  /\ idx > Len(keys)
  /\ pc' = IF Truthy(cfg.staticURLs) THEN "load" ELSE "write"
  /\ UNCHANGED <<opts, cfg, files, files0, keys, idx, disk, staticObjects,
                 entries, origins, writes, doneCalls, runs>>

\* the error of the read is caught and the run goes on without static entries
LoadStaticSwallow ==
  /\ pc = "load"
  /\ disk.t \in {"missing", "invalid"}
  /\ pc' = "write"
  /\ UNCHANGED <<opts, cfg, files, files0, keys, idx, disk, staticObjects,
                 entries, origins, writes, doneCalls, runs>>

\* JSON.parse(fs.readFileSync(staticURLs, 'utf8')) throws
LoadStaticThrow ==
  /\ pc = "load"
  /\ disk.t \in {"missing", "invalid"}
  /\ pc' = "failed"
  /\ UNCHANGED <<opts, cfg, files, files0, keys, idx, disk, staticObjects,
                 entries, origins, writes, doneCalls, runs>>

\* JSON.parse(fs.readFileSync(staticURLs, 'utf8')) returns the records
LoadStaticOk ==
  /\ pc = "load"
  /\ disk.t = "json"
  /\ staticObjects' = disk.v
  /\ idx' = 1
  /\ pc' = "static"
  /\ UNCHANGED <<opts, cfg, files, files0, keys, disk, entries, origins,
                 writes, doneCalls, runs>>

\* one iteration of "for (var i in staticObjects)"
StaticStep ==
  /\ pc = "static"
  /\ idx <= Len(staticObjects)
  /\ LET frontmatter == staticObjects[idx]
     IN /\ entries' = Append(entries, staticEntry(frontmatter, cfg))
        /\ origins' = Append(origins, [kind |-> "static", key |-> <<>>,
                                       fm |-> frontmatter])
  /\ idx' = idx + 1
  /\ UNCHANGED <<pc, opts, cfg, files, files0, keys, disk, staticObjects,
                 writes, doneCalls, runs>>

\* the for-in loop is over
StaticDone ==
  /\ pc = "static"
  /\ idx > Len(staticObjects)
  /\ pc' = "write"
  /\ UNCHANGED <<opts, cfg, files, files0, keys, idx, disk, staticObjects,
                 entries, origins, writes, doneCalls, runs>>

\* files[output] = { contents: new Buffer(sitemap.toString()) }
WriteOutput ==
  /\ pc = "write"
  /\ files' = SetFile(files, cfg.output.v,
                      Artifact([i \in 1..Len(entries) |-> entries[i]["url"]]))
  /\ writes' = writes + 1
  /\ pc' = "call"
  /\ UNCHANGED <<opts, cfg, files0, keys, idx, disk, staticObjects,
                 entries, origins, doneCalls, runs>>

\* done()
Done ==
  /\ pc = "call"
  /\ doneCalls' = doneCalls + 1
  /\ pc' = "ready"
  /\ UNCHANGED <<opts, cfg, files, files0, keys, idx, disk, staticObjects,
                 entries, origins, writes, runs>>

Next ==
  \/ ConstructThrow
  \/ ConstructOk
  \/ Invoke
  \/ FileStep
  \/ FilesDone
  \/ LoadStaticThrow
  \/ LoadStaticOk
  \/ StaticStep
  \/ StaticDone
  \/ WriteOutput
  \/ Done

----------------------------------------------------------------------------
(* Inputs: options, build file sets and JSON side files                     *)
P_index   == S_index_html
P_b_index == <<"b", "/">> \o S_index_html
P_b_post  == <<"b", "/", "p", "o", "s", "t">> \o S_html
P_w_index == <<"w", "\\">> \o S_index_html
P_txt     == <<"a", ".", "t", "x", "t">>
P_map     == <<"m", "a", "p">> \o S_html
P_ext     == <<"e", "/", "p">>

J_json  == <<"s">> \o S_json
J_upper == <<"s", ".", "J", "S", "O", "N">>
J_txt   == <<"s", ".", "t", "x", "t">>

PathChars == {"a", ".", "/", "\\"}

\* relative file paths of at most MaxLen characters: no empty segment
FreePaths ==
  {p \in UNION {[1..n -> PathChars] : n \in 1..MaxLen} :
     \A i \in 1..Len(Segments(slash(p))) : Segments(slash(p))[i] # <<>>}

Frontmatter(private, canonical, changefreq, priority, lastmod) ==
  [private |-> private, canonical |-> canonical, changefreq |-> changefreq,
   priority |-> priority, lastmod |-> lastmod, contents |-> Obj]

StaticRecord(path, changefreq, priority, lastmod) ==
  [path |-> path, changefreq |-> changefreq, priority |-> priority,
   lastmod |-> lastmod]

Options(hostname, changefreq, lastmod, omitExtension, omitIndex, output, pattern, priority, jsonFile) ==
  [t |-> "opts", hostname |-> hostname, changefreq |-> changefreq,
   lastmod |-> lastmod, omitExtension |-> omitExtension,
   omitIndex |-> omitIndex, output |-> output, pattern |-> pattern,
   priority |-> priority, jsonFile |-> jsonFile]

\* file sets of at most n keys, the keys distinct
FileSets(paths, fms, n) ==
  {fs \in UNION {[1..k -> [key : paths, fm : fms]] : k \in 0..n} :
     \A i, j \in 1..Len(fs) : fs[i].key = fs[j].key => i = j}

\* JSON side files: missing, malformed, or an array of at most n records
Disks(recs, n) ==
  {[t |-> "missing"], [t |-> "invalid"]}
    \cup {[t |-> "json", v |-> rs] : rs \in UNION {[1..k -> recs] : k \in 0..n}}

Flag == {Undef, Bool(TRUE)}

PriorityValues ==
  {Undef, Null, NaN, Num(0), Num(5), Num(10), Str(<<"0", ".", "7">>),
   Str(<<"h", "i">>)}

PlainFm == Frontmatter(Undef, Undef, Undef, Undef, Undef)
PlainRecs == {StaticRecord(Str(P_ext), Undef, Undef, Undef),
              StaticRecord(Undef, Undef, Undef, Undef)}

InitWith(o, fs, d) ==
  /\ pc = "new"
  /\ opts = o
  /\ cfg = NoCfg
  /\ files = fs
  /\ files0 = <<>>
  /\ keys = <<>>
  /\ idx = 1
  /\ disk = d
  /\ staticObjects = <<>>
  /\ entries = <<>>
  /\ origins = <<>>
  /\ writes = 0
  /\ doneCalls = 0
  /\ runs = 0

\* the pipeline: several files, several static records, repeated invocations
PipeOptions ==
  {Undef} \cup
  {Options(Str(S_host), Undef, Undef, Undef, Undef, out, pat, Undef, jf) :
     out \in {Undef, Str(P_map)}, pat \in {Undef, PatHtmlNotB},
     jf \in {Undef, Str(J_json)}}

PipeFiles ==
  FileSets({P_b_post, P_map, S_sitemap},
           {PlainFm, Frontmatter(Bool(TRUE), Undef, Undef, Undef, Undef)},
           MaxFiles)

Init ==
  \E o \in PipeOptions, fs \in PipeFiles, d \in Disks(PlainRecs, MaxStatic) :
     /\ (Truthy(normalizeOpts(o).jsonFile) \/ d.t = "missing")
     /\ InitWith(o, fs, d)

Spec == Init /\ [][Next]_vars

----------------------------------------------------------------------------
(* Properties of the pipeline                                               *)
Constructed == pc \notin {"new", "threw"}
Running     == pc \in {"files", "load", "static", "write"}
Succeeded   == pc = "call" \/ (pc = "ready" /\ runs > 0)

KeySet(fs) == {fs[i].key : i \in 1..Len(fs)}

IsIncluded(f) ==
  /\ match(f.key, cfg.pattern) # <<>>
  /\ ~Truthy(f.fm.private)

\* the build files of the invocation that are to be listed, in iteration order
IncludedFiles == SelectSeq(files0, IsIncluded)

\* the records of the JSON side file, when one is configured
StaticRecords == IF Truthy(cfg.staticURLs) /\ disk.t = "json" THEN disk.v ELSE <<>>

ExpectedOrigins ==
  [i \in 1..Len(IncludedFiles) |->
     [kind |-> "file", key |-> IncludedFiles[i].key, fm |-> IncludedFiles[i].fm]]
  \o [i \in 1..Len(StaticRecords) |->
     [kind |-> "static", key |-> <<>>, fm |-> StaticRecords[i]]]

\* C3: after a successful transformation the entries are exactly one per
\* build file that matches the pattern and is not private, in file-set
\* iteration order, followed by one per static record in array order.
C3_EntrySequence ==
  Succeeded =>
    /\ Len(entries) = Len(IncludedFiles) + Len(StaticRecords)
    /\ origins = ExpectedOrigins
    /\ \A i \in 1..Len(entries) : "url" \in DOMAIN entries[i]

C3_Witness ==
  /\ Succeeded
  /\ Len(files0) = 2
  /\ Len(IncludedFiles) = 1
  /\ Len(StaticRecords) = 2
  /\ StaticRecords[1] # StaticRecords[2]
  /\ Len(entries) = 3

\* C7: a run is all-or-nothing.  Either it completes: the artifact is
\* written once and done is called once, after the write.  Or the JSON side
\* file is configured and missing or malformed: the run stops, done is never
\* called and the file set is as it was.
C7_AllOrNothing ==
  /\ Running => writes = 0 /\ doneCalls = 0 /\ files = files0
  /\ pc = "failed" =>
       /\ Truthy(cfg.staticURLs) /\ disk.t \in {"missing", "invalid"}
       /\ writes = 0 /\ doneCalls = 0 /\ files = files0
  /\ pc = "call" => writes = 1 /\ doneCalls = 0
  /\ (pc = "ready" /\ runs > 0) => writes = 1 /\ doneCalls = 1
  /\ Succeeded =>
       /\ HasKey(files, cfg.output.v)
       /\ ~(Truthy(cfg.staticURLs) /\ disk.t \in {"missing", "invalid"})

C7_Witness ==
  /\ pc = "failed"
  /\ Len(entries) > 0
  /\ disk.t = "invalid"

\* C8 as stated: the output key is written exactly once per invocation, after
\* all entries are collected, and is never among the iterated candidate keys.
C8_Original ==
  Constructed =>
    /\ writes <= 1
    /\ writes = 1 => Succeeded /\ Len(entries) = Len(ExpectedOrigins)
    /\ \A i \in 1..Len(keys) : keys[i] # cfg.output.v

\* C8 amended: the output key is written exactly once per invocation, after
\* all entries are collected; it is among the iterated candidate keys exactly
\* when the file set handed to the invocation already has that key.
C8_WriteOnceAfterCollect ==
  Constructed =>
    /\ writes <= 1
    /\ writes = 1 => Succeeded /\ Len(entries) = Len(ExpectedOrigins)
    /\ Succeeded => writes = 1
    /\ runs > 0 =>
         ((\E i \in 1..Len(keys) : keys[i] = cfg.output.v)
            <=> HasKey(files0, cfg.output.v))

C8_Witness ==
  /\ pc = "call"
  /\ runs = 2
  /\ writes = 1
  /\ \E i \in 1..Len(keys) : keys[i] = cfg.output.v
  /\ Len(entries) >= 2

\* C9 as stated: a successful transformation leaves the key set equal to the
\* input key set plus the output key, and every input key maps to its
\* original metadata record.
C9_Original ==
  Succeeded =>
    /\ KeySet(files) = KeySet(files0) \cup {cfg.output.v}
    /\ \A i \in 1..Len(files0) : FileAt(files, files0[i].key) = files0[i].fm

\* C9 amended: a successful transformation leaves the key set equal to the
\* input key set plus the output key; every input key other than the output
\* key maps to its original record, in the original order, and the output
\* key maps to the generated artifact, replacing a record already there.
C9_FrameExceptOutput ==
  Succeeded =>
    /\ KeySet(files) = KeySet(files0) \cup {cfg.output.v}
    /\ \A i \in 1..Len(files0) :
         /\ files[i].key = files0[i].key
         /\ files0[i].key # cfg.output.v => files[i].fm = files0[i].fm
    /\ FileAt(files, cfg.output.v).contents.t = "buffer"
    /\ Len(files) = Len(files0) + (IF HasKey(files0, cfg.output.v) THEN 0 ELSE 1)

C9_Witness ==
  /\ Succeeded
  /\ runs = 1
  /\ Len(files0) = 2
  /\ HasKey(files0, cfg.output.v)
  /\ files # files0

----------------------------------------------------------------------------
(* URL building: one build file of any path, one static record              *)
UrlOptions ==
  {Undef} \cup
  {Options(Str(S_host), Undef, Undef, oe, oi, Undef, PatAll, Undef, jf) :
     oe \in Flag, oi \in Flag, jf \in {Undef, Str(J_json)}}

UrlPaths == {P_index, P_b_index, P_b_post, P_w_index, P_txt} \cup FreePaths

UrlFrontmatters ==
  {Frontmatter(pr, ca, Undef, Undef, Undef) :
     pr \in {Undef, Bool(TRUE)},
     ca \in {Undef, Str(<<>>), Str(<<"c">>), Str(<<"c", "/">>), Num(1)}}

UrlRecords ==
  {StaticRecord(pa, Undef, Undef, Undef) :
     pa \in {Undef, Str(<<>>), Str(P_ext), Str(P_b_index), Str(P_b_post)}}

InitUrl ==
  \E o \in UrlOptions, p \in UrlPaths, fm \in UrlFrontmatters,
     d \in Disks(UrlRecords, 1) :
     /\ (Truthy(normalizeOpts(o).jsonFile) \/ d.t = "missing")
     /\ (Truthy(normalizeOpts(o).jsonFile) => fm.canonical = Undef)
     /\ InitWith(o, <<[key |-> p, fm |-> fm]>>, d)

SpecUrl == InitUrl /\ [][Next]_vars

\* the URL the precedence rules of the URL builder give
RuleBase(file, fm) ==
  LET n == slash(file) IN
  IF fm.canonical.t = "str" THEN fm.canonical.v
  ELSE IF Truthy(cfg.omitIndex) /\ Segments(n)[Len(Segments(n))] = S_index_html
       THEN SubSeq(n, 1, Len(n) - Len(S_index_html))
  ELSE IF Truthy(cfg.omitExtension)
       THEN SubSeq(n, 1, Len(n) - Len(extname(n)))
  ELSE n

RuleUrl(file, fm) ==
  IF RuleBase(file, fm) # <<>> /\ RuleBase(file, fm)[Len(RuleBase(file, fm))] = "/"
  THEN RuleBase(file, fm)
  ELSE RuleBase(file, fm) \o <<"/">>

\* C2: the URL of a build file follows the rules in strict precedence order,
\* the first applicable rule winning: a string canonical verbatim; else with
\* omitIndex a final segment index.html is stripped; else with omitExtension
\* the extension is stripped; else the normalized path; then "/" is appended
\* unless the result already ends with "/".
C2_StrictPrecedence ==
  \A i \in 1..Len(entries) :
     origins[i].kind = "file" =>
       entries[i]["url"] = Str(RuleUrl(origins[i].key, origins[i].fm))

\* C4: every build file that matches the pattern and is not private has an
\* entry, and the url of that entry is a non-empty string ending with "/".
C4_UrlEndsWithSlash ==
  /\ \A i \in 1..Len(entries) :
        origins[i].kind = "file" =>
          /\ entries[i]["url"].t = "str"
          /\ entries[i]["url"].v # <<>>
          /\ entries[i]["url"].v[Len(entries[i]["url"].v)] = "/"
  /\ Succeeded =>
       \A j \in 1..Len(IncludedFiles) :
          \E i \in 1..Len(entries) :
             origins[i].kind = "file" /\ origins[i].key = IncludedFiles[j].key

C4_Witness ==
  /\ Succeeded
  /\ Len(entries) = 1
  /\ origins[1].kind = "file"
  /\ origins[1].fm.canonical = Str(<<>>)
  /\ origins[1].key = P_index
  /\ Truthy(cfg.omitIndex)
  /\ entries[1]["url"] = Str(P_index \o <<"/">>)

\* C5 as stated: the url of a static entry is hostname + "/" + path when
\* the record has a path, and the empty string otherwise; no slash is
\* appended and no rule of the URL builder is applied.
C5_Original ==
  \A i \in 1..Len(entries) :
     origins[i].kind = "static" =>
       entries[i]["url"] =
         (IF origins[i].fm.path # Undef
          THEN Str(S_host \o <<"/">> \o origins[i].fm.path.v)
          ELSE Str(<<>>))

\* C5 amended: the url of a static entry is hostname + "/" + path when the
\* record has a non-empty path, and the empty string when the path is absent
\* or empty; no slash is appended and no rule of the URL builder is applied.
C5_StaticUrl ==
  \A i \in 1..Len(entries) :
     origins[i].kind = "static" =>
       entries[i]["url"] =
         (IF origins[i].fm.path # Undef /\ origins[i].fm.path # Str(<<>>)
          THEN Str(S_host \o <<"/">> \o origins[i].fm.path.v)
          ELSE Str(<<>>))

C5_Witness ==
  /\ Succeeded
  /\ Truthy(cfg.omitIndex)
  /\ Truthy(cfg.omitExtension)
  /\ \E i \in 1..Len(entries) :
        /\ origins[i].kind = "static"
        /\ origins[i].fm.path = Str(P_b_index)
        /\ entries[i]["url"] = Str(S_host \o <<"/">> \o P_b_index)

----------------------------------------------------------------------------
(* Entry metadata: one build file and one static record with the same       *)
(* changefreq, priority and lastmod                                         *)
MetaOptions ==
  {Undef} \cup
  {Options(Str(S_host), cf, lm, Undef, Undef, Undef, Undef, pr, jf) :
     cf \in {Undef, Str(S_daily)}, lm \in {Undef, DateV(1)},
     pr \in {Undef, Num(0), Num(8)}, jf \in {Undef, Str(J_json)}}

MetaChangefreqs == {Undef, Str(S_daily)}
MetaPriorities  == {Undef, Num(0), Num(3)}
MetaLastmods    == {Undef, DateV(0), Str(S_date(1)), Str(<<"x">>)}

InitMeta ==
  \E o \in MetaOptions, cf \in MetaChangefreqs, pr \in MetaPriorities,
     lm \in MetaLastmods, hasDisk \in BOOLEAN :
     InitWith(o,
              <<[key |-> P_b_post, fm |-> Frontmatter(Undef, Undef, cf, pr, lm)]>>,
              IF hasDisk /\ Truthy(normalizeOpts(o).jsonFile)
              THEN [t |-> "json", v |-> <<StaticRecord(Str(P_ext), cf, pr, lm)>>]
              ELSE [t |-> "missing"])

SpecMeta == InitMeta /\ [][Next]_vars

\* the value the resolution rule gives for a field: the record's when the
\* record has the field, else the configuration default
RuleField(fm, f) == IF fm[f] # Undef THEN fm[f] ELSE cfg[f]

\* C1: in every entry, file-derived or static, each of changefreq, priority
\* and lastmod is the metadata record's value whenever the record has the
\* field, falsy values included (priority 0 stays 0), otherwise the
\* configuration default, otherwise the field is omitted.
C1_MetadataFirst ==
  \A i \in 1..Len(entries) :
     /\ \A f \in {"changefreq", "priority"} :
           /\ f \in DOMAIN entries[i] <=> RuleField(origins[i].fm, f) # Undef
           /\ f \in DOMAIN entries[i] =>
                entries[i][f] = RuleField(origins[i].fm, f)
     /\ "lastmod" \in DOMAIN entries[i] <=> RuleField(origins[i].fm, "lastmod") # Undef
     /\ "lastmod" \in DOMAIN entries[i] =>
          entries[i]["lastmod"] = toUTCString(RuleField(origins[i].fm, "lastmod"))

----------------------------------------------------------------------------
(* Priority: any configured priority against any metadata priority          *)
PrioOptions ==
  {Undef} \cup
  {Options(Str(S_host), Undef, Undef, Undef, Undef, Undef, Undef, pr, jf) :
     pr \in PriorityValues, jf \in {Undef, Str(J_json)}}

InitPrio ==
  \E o \in PrioOptions, pr \in PriorityValues, hasDisk \in BOOLEAN :
     InitWith(o,
              <<[key |-> P_b_post, fm |-> Frontmatter(Undef, Undef, Undef, pr, Undef)]>>,
              IF hasDisk /\ Truthy(normalizeOpts(o).jsonFile)
              THEN [t |-> "json", v |-> <<StaticRecord(Str(P_ext), Undef, pr, Undef)>>]
              ELSE [t |-> "missing"])

SpecPrio == InitPrio /\ [][Next]_vars

\* C10 as stated: the priority of every entry, if present, is a number and
\* never NaN, for any configured priority and any metadata record.
C10_Original ==
  \A i \in 1..Len(entries) :
     "priority" \in DOMAIN entries[i] => entries[i]["priority"].t = "num"

\* a value the default replaces: undefined, NaN, a string that is no number
Defaulted(x) == x \in {Undef, NaN, Str(<<"h", "i">>)}

\* C10 amended: the priority of every entry, if present, is never NaN, and
\* is a number whenever the metadata priority is absent, falsy or a number
\* and the configured priority is absent, NaN, a number or a string that
\* does not convert to a number.  The default becomes 0.5 exactly when the
\* configured value converts to NaN (a numeric string and null are kept),
\* and a configured 0 is kept as 0.
C10_PriorityNeverNaN ==
  Constructed =>
    /\ Defaulted(opts.priority) => cfg.priority = Num(5)
    /\ ~Defaulted(opts.priority) => cfg.priority = opts.priority
    /\ \A i \in 1..Len(entries) :
          "priority" \in DOMAIN entries[i] =>
            /\ entries[i]["priority"] # NaN
            /\ (/\ origins[i].fm.priority.t \in {"undef", "null", "nan", "num"}
                /\ (Defaulted(opts.priority) \/ opts.priority.t = "num"))
                 => entries[i]["priority"].t = "num"
            /\ (opts.priority = Num(0) /\ ~Truthy(origins[i].fm.priority))
                 => entries[i]["priority"] = Num(0)

C10_Witness ==
  /\ Succeeded
  /\ opts.priority = Num(0)
  /\ Len(entries) = 2
  /\ origins[1].fm.priority = NaN
  /\ entries[1]["priority"] = Num(0)
  /\ entries[2]["priority"] = Num(0)

----------------------------------------------------------------------------
(* Construction: any options value                                          *)
CtorOptions ==
  {Undef, Str(<<>>), Str(S_host)} \cup
  {Options(hn, Undef, Undef, Undef, Undef, Undef, Undef, Undef, jf) :
     hn \in {Undef, Str(<<>>), Str(S_host)},
     jf \in {Undef, Str(<<>>), Str(J_json), Str(J_upper), Str(J_txt),
             Str(S_json), Str(<<"s">>)}}

InitCtor ==
  \E o \in CtorOptions, fs \in FileSets({P_b_post, P_txt}, {PlainFm}, 1),
     d \in Disks(PlainRecs, 1) :
     InitWith(o, fs, d)

SpecCtor == InitCtor /\ [][Next]_vars

\* the hostname and the jsonFile a configuration gives
GivenHostname == IF opts.t = "str" THEN opts ELSE IF opts.t = "opts" THEN opts.hostname ELSE Undef
GivenJsonFile == IF opts.t = "opts" THEN opts.jsonFile ELSE Undef

HostnameMissing == GivenHostname = Undef \/ GivenHostname = Str(<<>>)

\* the characters after the last "." of a file name that has one inside it
HasJsonExtension(s) ==
  /\ Len(s) > Len(S_json)
  /\ SubSeq(s, Len(s) - Len(S_json) + 1, Len(s)) = S_json
  /\ s[Len(s) - Len(S_json)] # "/"

NothingProcessed ==
  /\ cfg = NoCfg /\ runs = 0 /\ keys = <<>> /\ entries = <<>>
  /\ staticObjects = <<>> /\ writes = 0 /\ doneCalls = 0

\* C6 as stated: construction fails, before anything is processed, when the
\* hostname is missing or empty or when jsonFile is given and its extension
\* is not exactly .json; every other configuration is accepted.
C6_Original ==
  /\ pc = "threw" =>
       /\ HostnameMissing
            \/ (GivenJsonFile # Undef /\ ~HasJsonExtension(GivenJsonFile.v))
       /\ NothingProcessed
  /\ Constructed =>
       ~(HostnameMissing
            \/ (GivenJsonFile # Undef /\ ~HasJsonExtension(GivenJsonFile.v)))

\* C6 amended: construction fails, before anything is processed, when the
\* hostname is missing or empty or when jsonFile is a non-empty string whose
\* extension is not exactly .json; every other configuration, an empty
\* jsonFile included, is accepted.
C6_ConstructionErrors ==
  /\ pc = "threw" =>
       /\ HostnameMissing
            \/ (Truthy(GivenJsonFile) /\ ~HasJsonExtension(GivenJsonFile.v))
       /\ NothingProcessed
  /\ Constructed =>
       ~(HostnameMissing
            \/ (Truthy(GivenJsonFile) /\ ~HasJsonExtension(GivenJsonFile.v)))

C6_Witness ==
  /\ pc = "threw"
  /\ GivenHostname = Str(S_host)
  /\ GivenJsonFile = Str(J_upper)
  /\ Len(files) = 1

====
